---------------------------- MODULE Spec2Model ----------------------------
(***************************************************************************)
(* A model of rustlebrot (src/rustlebrot/src/main.rs): the escape-time     *)
(* function `mandelbrot`, the parallel renderer `render_mandelbrot`, the   *)
(* colour mapping `color_gradient`, and `main` with its argument parsing,  *)
(* zoom loop, image save and encoder invocation.                           *)
(*                                                                         *)
(* The program computes in IEEE-754 binary64 (f64) and in u32/i32.  Both   *)
(* are modelled at full width.  TLC's integers are 32-bit, so a 53-bit     *)
(* significand and a u32 are held as naturals written in limbs of 15 bits  *)
(* (least significant limb first, no leading zero limb), and every f64     *)
(* operation the program uses is computed exactly and then rounded to      *)
(* nearest, ties to even, as the hardware does.                            *)
(***************************************************************************)
EXTENDS Integers, Sequences, FiniteSets, TLC

(***************************************************************************)
(* Naturals of any size, in limbs.  The arithmetic is written as functions *)
(* so that an argument is a value, computed once, wherever it is used.     *)
(***************************************************************************)
LimbBits == 15
Base == 2 ^ LimbBits
Limbs == Seq(Nat)

BTrim[a \in Limbs] ==
    IF a = <<>> THEN <<>>
    ELSE IF a[Len(a)] = 0 THEN BTrim[SubSeq(a, 1, Len(a) - 1)]
    ELSE a

BOfInt[n \in Nat] == IF n = 0 THEN <<>> ELSE <<n % Base>> \o BOfInt[n \div Base]

BToInt[a \in Limbs] == IF a = <<>> THEN 0 ELSE a[1] + Base * BToInt[Tail(a)]

BLimb(a, i) == IF i <= Len(a) THEN a[i] ELSE 0

\* a + b + c from limb i up, c the carry
BAddFrom[a \in Limbs, b \in Limbs, i \in Nat, c \in Nat] ==
    IF i > Len(a) /\ i > Len(b)
    THEN (IF c = 0 THEN <<>> ELSE <<c>>)
    ELSE <<(BLimb(a, i) + BLimb(b, i) + c) % Base>>
         \o BAddFrom[a, b, i + 1, (BLimb(a, i) + BLimb(b, i) + c) \div Base]

BAdd[a \in Limbs, b \in Limbs] == BAddFrom[a, b, 1, 0]

\* a - b - c from limb i up, for a >= b, c the borrow
BSubFrom[a \in Limbs, b \in Limbs, i \in Nat, c \in Nat] ==
    IF i > Len(a) THEN <<>>
    ELSE IF a[i] - BLimb(b, i) - c < 0
         THEN <<a[i] - BLimb(b, i) - c + Base>> \o BSubFrom[a, b, i + 1, 1]
         ELSE <<a[i] - BLimb(b, i) - c>> \o BSubFrom[a, b, i + 1, 0]

BSub[a \in Limbs, b \in Limbs] == BTrim[BSubFrom[a, b, 1, 0]]

\* -1, 0, 1 as a < b, a = b, a > b
BCmpAt[a \in Limbs, b \in Limbs, i \in Nat] ==
    IF i = 0 THEN 0
    ELSE IF a[i] < b[i] THEN -1
    ELSE IF a[i] > b[i] THEN 1
    ELSE BCmpAt[a, b, i - 1]

BCmp[a \in Limbs, b \in Limbs] ==
    IF Len(a) < Len(b) THEN -1
    ELSE IF Len(a) > Len(b) THEN 1
    ELSE BCmpAt[a, b, Len(a)]

\* a * k + c from limb i up, for 0 <= k, c < Base
BMulSmallFrom[a \in Limbs, k \in Nat, i \in Nat, c \in Nat] ==
    IF i > Len(a)
    THEN (IF c = 0 THEN <<>> ELSE <<c>>)
    ELSE <<(a[i] * k + c) % Base>>
         \o BMulSmallFrom[a, k, i + 1, (a[i] * k + c) \div Base]

BMulSmall[a \in Limbs, k \in Nat] == BTrim[BMulSmallFrom[a, k, 1, 0]]

BShiftLimbs[a \in Limbs, n \in Nat] ==
    IF a = <<>> THEN <<>> ELSE [i \in 1..n |-> 0] \o a

BMul[a \in Limbs, b \in Limbs] ==
    IF a = <<>> \/ b = <<>> THEN <<>>
    ELSE BAdd[BMulSmall[a, b[1]], BShiftLimbs[BMul[a, Tail(b)], 1]]

\* a mod k and floor(a / k) for 0 < k <= Base, from the top limb i down, r
\* the remainder carried
BModSmallFrom[a \in Limbs, k \in Nat, i \in Nat, r \in Nat] ==
    IF i = 0 THEN r ELSE BModSmallFrom[a, k, i - 1, (r * Base + a[i]) % k]

BDivSmallFrom[a \in Limbs, k \in Nat, i \in Nat, r \in Nat] ==
    IF i = 0 THEN <<>>
    ELSE BDivSmallFrom[a, k, i - 1, (r * Base + a[i]) % k]
         \o <<(r * Base + a[i]) \div k>>

BDivSmall[a \in Limbs, k \in Nat] == BTrim[BDivSmallFrom[a, k, Len(a), 0]]
BModSmall[a \in Limbs, k \in Nat] == BModSmallFrom[a, k, Len(a), 0]

BShl[a \in Limbs, n \in Nat] ==
    BShiftLimbs[BMulSmall[a, 2 ^ (n % LimbBits)], n \div LimbBits]

BDropLimbs[a \in Limbs, n \in Nat] ==
    IF n >= Len(a) THEN <<>> ELSE SubSeq(a, n + 1, Len(a))

BShr[a \in Limbs, n \in Nat] ==
    BDivSmall[BDropLimbs[a, n \div LimbBits], 2 ^ (n % LimbBits)]

IntBitLen[n \in Nat] == IF n = 0 THEN 0 ELSE 1 + IntBitLen[n \div 2]

BBitLen[a \in Limbs] ==
    IF a = <<>> THEN 0 ELSE LimbBits * (Len(a) - 1) + IntBitLen[a[Len(a)]]

BBit[a \in Limbs, i \in Nat] ==
    (BLimb(a, (i \div LimbBits) + 1) \div (2 ^ (i % LimbBits))) % 2

\* whether one of the low n bits of a is set
BLowBitsSet[a \in Limbs, n \in Nat] == BShl[BShr[a, n], n] # a

BIsOdd[a \in Limbs] == a # <<>> /\ a[1] % 2 = 1

(***************************************************************************)
(* IEEE-754 binary64.  A value is NaN, an infinity, or finite: (-1)^s * m  *)
(* * 2^e, with m of exactly 53 bits (normal), or e = emin and m shorter    *)
(* (subnormal, zero).  The form is canonical, so equal records are equal   *)
(* floats (with +0 and -0 kept apart, as their bit patterns are).          *)
(***************************************************************************)
F64Format == [p |-> 53, emin |-> -1074, emax |-> 971]
F64 == [k : {"nan", "inf", "fin"}, s : {0, 1}, m : Limbs, e : Int]

NaN == [k |-> "nan", s |-> 0, m |-> <<>>, e |-> 0]
Inf(s) == [k |-> "inf", s |-> s, m |-> <<>>, e |-> 0]
FZero(s) == [k |-> "fin", s |-> s, m |-> <<>>, e |-> F64Format.emin]

IsNaN(x) == x.k = "nan"
IsInf(x) == x.k = "inf"
IsFinite(x) == x.k = "fin"
IsZero(x) == x.k = "fin" /\ x.m = <<>>

FPack[s \in {0, 1}, m \in Limbs, e \in Int] ==
    IF e > F64Format.emax THEN Inf(s) ELSE [k |-> "fin", s |-> s, m |-> m, e |-> e]

\* q * 2^e after the rounding: a carry out of the 53 bits moves to the next binade
FCarry[s \in {0, 1}, q \in Limbs, e \in Int] ==
    IF BBitLen[q] > F64Format.p THEN FPack[s, BShr[q, 1], e + 1] ELSE FPack[s, q, e]

\* m * 2^e to a multiple of 2^(e + d), d > 0: to nearest, ties to even
FRound[s \in {0, 1}, m \in Limbs, e \in Int, d \in Nat, sticky \in BOOLEAN] ==
    IF BBit[m, d - 1] = 1 /\ (sticky \/ BLowBitsSet[m, d - 1] \/ BIsOdd[BShr[m, d]])
    THEN FCarry[s, BAdd[BShr[m, d], <<1>>], e + d]
    ELSE FCarry[s, BShr[m, d], e + d]

\* the exponent of the last place of a value m * 2^e of len bits
LastPlace[e \in Int, len \in Nat] ==
    IF e + len - F64Format.p > F64Format.emin
    THEN e + len - F64Format.p ELSE F64Format.emin

\* (-1)^s * (m + t) * 2^e, 0 <= t < 1 and t > 0 iff sticky, rounded to nearest,
\* ties to even.  With sticky, m has more than 53 bits.
RoundTo[s \in {0, 1}, m \in Limbs, e \in Int, sticky \in BOOLEAN, e1 \in Int] ==
    IF e1 <= e THEN FPack[s, BShl[m, e - e1], e1]
    ELSE FRound[s, m, e, e1 - e, sticky]

RoundPack[s \in {0, 1}, m \in Limbs, e \in Int, sticky \in BOOLEAN] ==
    IF m = <<>> THEN FZero(s) ELSE RoundTo[s, m, e, sticky, LastPlace[e, BBitLen[m]]]

FNeg[x \in F64] == IF IsNaN(x) THEN x ELSE [x EXCEPT !.s = 1 - x.s]

\* hs * hm * 2^e + ls * lm * 2^e
Signs == {0, 1}

FAddAligned[hs \in Signs, hm \in Limbs, ls \in Signs, lm \in Limbs, e \in Int, c \in Int] ==
    IF hs = ls THEN RoundPack[hs, BAdd[hm, lm], e, FALSE]
    ELSE IF c = 0 THEN FZero(0)
    ELSE IF c > 0 THEN RoundPack[hs, BSub[hm, lm], e, FALSE]
    ELSE RoundPack[ls, BSub[lm, hm], e, FALSE]

\* the sum of two finite values, hi.e >= lo.e.  A lo far below hi's last bit
\* only decides the direction of the rounding.
FAddOrdered[hi \in F64, lo \in F64] ==
    IF hi.e - lo.e > 64
    THEN FAddAligned[hi.s, BShl[hi.m, 64], lo.s, <<1>>, hi.e - 64, 1]
    ELSE FAddAligned[hi.s, BShl[hi.m, hi.e - lo.e], lo.s, lo.m, lo.e,
                     BCmp[BShl[hi.m, hi.e - lo.e], lo.m]]

FAdd[x \in F64, y \in F64] ==
    IF IsNaN(x) \/ IsNaN(y) THEN NaN
    ELSE IF IsInf(x) THEN (IF IsInf(y) /\ y.s # x.s THEN NaN ELSE x)
    ELSE IF IsInf(y) THEN y
    ELSE IF IsZero(x) /\ IsZero(y) THEN FZero(IF x.s = 1 /\ y.s = 1 THEN 1 ELSE 0)
    ELSE IF IsZero(y) THEN x
    ELSE IF IsZero(x) THEN y
    ELSE IF x.e >= y.e THEN FAddOrdered[x, y]
    ELSE FAddOrdered[y, x]

FSub[x \in F64, y \in F64] == FAdd[x, FNeg[y]]

SignXor(x, y) == IF x.s = y.s THEN 0 ELSE 1

FMul[x \in F64, y \in F64] ==
    IF IsNaN(x) \/ IsNaN(y) THEN NaN
    ELSE IF IsInf(x) \/ IsInf(y)
         THEN (IF IsZero(x) \/ IsZero(y) THEN NaN ELSE Inf(SignXor(x, y)))
    ELSE RoundPack[SignXor(x, y), BMul[x.m, y.m], x.e + y.e, FALSE]

\* Long division in limbs (Knuth's algorithm D).  d has DivLimbs limbs with its
\* top bit set and r < d; the next quotient limb of r / d is at most two below
\* the estimate qhat from the leading limbs.
DivLimbs == (F64Format.p + LimbBits - 1) \div LimbBits

DivEstimate[r1 \in Limbs, d \in Limbs] ==
    IF (BLimb(r1, DivLimbs + 1) * Base + BLimb(r1, DivLimbs)) \div d[DivLimbs] > Base - 1
    THEN Base - 1
    ELSE (BLimb(r1, DivLimbs + 1) * Base + BLimb(r1, DivLimbs)) \div d[DivLimbs]

DivFits[r1 \in Limbs, d \in Limbs, c \in Int] ==
    c >= 0 /\ BCmp[BMulSmall[d, c], r1] <= 0

DivCorrect[r1 \in Limbs, d \in Limbs, qhat \in Nat] ==
    IF DivFits[r1, d, qhat] THEN qhat
    ELSE IF DivFits[r1, d, qhat - 1] THEN qhat - 1
    ELSE qhat - 2

DivStep[r1 \in Limbs, d \in Limbs, q \in Nat] ==
    [q |-> q, r |-> BSub[r1, BMulSmall[d, q]]]

\* the next quotient limb of r / d and the remainder left
DivDigit[r \in Limbs, d \in Limbs] ==
    DivStep[BShiftLimbs[r, 1], d,
            DivCorrect[BShiftLimbs[r, 1], d, DivEstimate[BShiftLimbs[r, 1], d]]]

\* a quotient limb, and quotient limbs, with the remainder left
DivOne == [q : Nat, r : Limbs]
DivMany == [q : Limbs, r : Limbs]

DivJoin[one \in DivOne, rest \in DivMany] ==
    [q |-> rest.q \o <<one.q>>, r |-> rest.r]

\* the next n quotient limbs of r / d (n limbs, least significant first) and
\* the remainder left
DivDigitsAfter[one \in DivOne, d \in Limbs, n \in Nat] ==
    IF n = 0 THEN [q |-> <<one.q>>, r |-> one.r]
    ELSE DivJoin[one, DivDigitsAfter[DivDigit[one.r, d], d, n - 1]]

DivDigits[r \in Limbs, d \in Limbs, n \in Nat] ==
    DivDigitsAfter[DivDigit[r, d], d, n - 1]

\* the quotient with its leading bit ge and the digits res, rounded
FDivAligned[s \in Signs, e \in Int, res \in DivMany, ge \in BOOLEAN] ==
    RoundPack[s, IF ge THEN res.q \o <<1>> ELSE BTrim[res.q], e, res.r # <<>>]

\* mx / my * 2^e for mx, my of DivLimbs full limbs
FDivShifted[s \in {0, 1}, mx \in Limbs, my \in Limbs, e \in Int] ==
    FDivAligned[s, e,
                DivDigits[IF BCmp[mx, my] >= 0 THEN BSub[mx, my] ELSE mx, my, DivLimbs],
                BCmp[mx, my] >= 0]

\* the quotient of two finite non-zero values
FDivFinite[x \in F64, y \in F64, kx \in Nat, ky \in Nat] ==
    FDivShifted[SignXor(x, y), BShl[x.m, kx], BShl[y.m, ky],
                (x.e - kx) - (y.e - ky) - DivLimbs * LimbBits]

FDiv[x \in F64, y \in F64] ==
    IF IsNaN(x) \/ IsNaN(y) THEN NaN
    ELSE IF IsInf(x) THEN (IF IsInf(y) THEN NaN ELSE Inf(SignXor(x, y)))
    ELSE IF IsInf(y) THEN FZero(SignXor(x, y))
    ELSE IF IsZero(y) THEN (IF IsZero(x) THEN NaN ELSE Inf(SignXor(x, y)))
    ELSE IF IsZero(x) THEN FZero(SignXor(x, y))
    ELSE FDivFinite[x, y, DivLimbs * LimbBits - BBitLen[x.m],
                    DivLimbs * LimbBits - BBitLen[y.m]]

\* |x| > |y| for x, y not NaN
MagGt[x \in F64, y \in F64] ==
    IF IsInf(x) THEN ~IsInf(y)
    ELSE IF IsInf(y) THEN FALSE
    ELSE x.e > y.e \/ (x.e = y.e /\ BCmp[x.m, y.m] > 0)

\* x > y, as the f64 comparison: false when either is NaN, and -0 = +0
FGt[x \in F64, y \in F64] ==
    IF IsNaN(x) \/ IsNaN(y) THEN FALSE
    ELSE IF IsZero(x) /\ IsZero(y) THEN FALSE
    ELSE IF x.s = 0 /\ y.s = 1 THEN TRUE
    ELSE IF x.s = 1 /\ y.s = 0 THEN FALSE
    ELSE IF x.s = 0 THEN MagGt[x, y]
    ELSE MagGt[y, x]

FLt[x \in F64, y \in F64] == FGt[y, x]

\* x == y, as the f64 comparison
FEq[x \in F64, y \in F64] ==
    IF IsNaN(x) \/ IsNaN(y) THEN FALSE
    ELSE (IsZero(x) /\ IsZero(y)) \/ x = y

\* n as f64 for a natural n in limbs (exact below 2^53)
FOfNat[b \in Limbs] == RoundPack[0, b, 0, FALSE]
FOfInt[n \in Int] == IF n >= 0 THEN FOfNat[BOfInt[n]] ELSE FNeg[FOfNat[BOfInt[-n]]]

\* x % 1.0: the remainder of x by 1 with the sign of x (exact)
FRem1[x \in F64] ==
    IF ~IsFinite(x) THEN NaN
    ELSE IF x.e >= 0 THEN FZero(x.s)
    ELSE IF -x.e >= BBitLen[x.m] THEN x
    ELSE RoundPack[x.s, BSub[x.m, BShl[BShr[x.m, -x.e], -x.e]], x.e, FALSE]

\* the f64 literals of the source
HexNat[h \in Seq(Nat)] ==
    IF h = <<>> THEN <<>>
    ELSE BAdd[BMulSmall[HexNat[SubSeq(h, 1, Len(h) - 1)], 16], BOfInt[h[Len(h)]]]

F64One  == FOfInt[1]
F64Two  == FOfInt[2]
F64Four == FOfInt[4]

(***************************************************************************)
(* u32 and i32.  A u32 is a natural in limbs; an i32 fits TLC's integers.  *)
(***************************************************************************)
U32Max == BSub[BShl[<<1>>, 32], <<1>>]
I32Top == BShl[<<1>>, 31]

\* `v as i32` for a u32 v: the same 32 bits read as two's complement
AsI32[v \in Limbs] ==
    IF BCmp[v, I32Top] < 0 THEN BToInt[v]
    ELSE BToInt[BSub[v, I32Top]] + (-2147483647 - 1)

\* f64::powi(a, b), as compiler-builtins' __powidf2 computes it: square and
\* multiply over the bits of |b|, low bit first, then the reciprocal for b < 0.
\* st.b keeps b's sign: b % 2 is the low bit of |b| and the halving truncates.
PowiState == [a : F64, b : Int, mul : F64]

PowiLoop[st \in PowiState] ==
    LET mul  == IF st.b % 2 = 1 THEN FMul[st.mul, st.a] ELSE st.mul
        half == IF st.b >= 0 THEN st.b \div 2 ELSE (st.b + 1) \div 2
    IN  IF half = 0 THEN mul
        ELSE PowiLoop[[a |-> FMul[st.a, st.a], b |-> half, mul |-> mul]]

powi[a \in F64, b \in Int] ==
    IF b < 0 THEN FDiv[F64One, PowiLoop[[a |-> a, b |-> b, mul |-> F64One]]]
    ELSE PowiLoop[[a |-> a, b |-> b, mul |-> F64One]]

(***************************************************************************)
(* Command-line arguments are sequences of one-character strings.          *)
(* str::parse::<u32>() and str::parse::<f64>() are computed as the         *)
(* standard library does, for arguments without an exponent part and with  *)
(* at most 15 digits (where f64 parsing is one correctly rounded division  *)
(* of the digits by a power of ten).                                       *)
(***************************************************************************)
Digits == <<"0", "1", "2", "3", "4", "5", "6", "7", "8", "9">>
IsDigit(c) == \E d \in 1..10 : Digits[d] = c
DigitOf(c) == (CHOOSE d \in 1..10 : Digits[d] = c) - 1

ParseErr == [ok |-> FALSE, v |-> <<>>]

\* the digits of s from place i on, after the value acc of those before
U32Digits[s \in Seq(STRING), i \in Nat, acc \in Limbs] ==
    IF i > Len(s) THEN [ok |-> TRUE, v |-> acc]
    ELSE IF ~IsDigit(s[i]) THEN ParseErr
    ELSE IF BCmp[BAdd[BMulSmall[acc, 10], BOfInt[DigitOf(s[i])]], U32Max] > 0
         THEN ParseErr
    ELSE U32Digits[s, i + 1, BAdd[BMulSmall[acc, 10], BOfInt[DigitOf(s[i])]]]

parse_u32(s) ==
    IF s = <<>> \/ s = <<"+">> \/ s = <<"-">> THEN ParseErr
    ELSE IF s[1] = "+" THEN U32Digits[s, 2, <<>>]
    ELSE U32Digits[s, 1, <<>>]

LowerOf(c) ==
    CASE c = "I" -> "i" [] c = "N" -> "n" [] c = "F" -> "f" [] c = "A" -> "a"
      [] c = "T" -> "t" [] c = "Y" -> "y" [] OTHER -> c

Lower(s) == [i \in 1..Len(s) |-> LowerOf(s[i])]

\* the digits of s as a natural (s holds digits only)
DigitsNat[s \in Seq(STRING)] ==
    IF s = <<>> THEN <<>>
    ELSE BAdd[BMulSmall[DigitsNat[SubSeq(s, 1, Len(s) - 1)], 10],
              BOfInt[DigitOf(s[Len(s)])]]

Pow10[k \in Nat] == IF k = 0 THEN <<1>> ELSE BMulSmall[Pow10[k - 1], 10]

DropChar(s, c) == SelectSeq(s, LAMBDA ch : ch # c)

\* an unsigned decimal: digits with at most one point and at least one digit
ParseDecimal(s) ==
    LET ds   == DropChar(s, ".")
        dot  == IF \E i \in 1..Len(s) : s[i] = "."
                THEN CHOOSE i \in 1..Len(s) : s[i] = "."
                ELSE Len(s) + 1
        frac == Len(s) - dot
    IN  IF ds = <<>> \/ Len(s) - Len(ds) > 1 \/ \E i \in 1..Len(ds) : ~IsDigit(ds[i])
        THEN ParseErr
        ELSE [ok |-> TRUE,
              v  |-> FDiv[FOfNat[DigitsNat[ds]],
                          FOfNat[Pow10[IF frac > 0 THEN frac ELSE 0]]]]

parse_f64(s) ==
    LET signed == s # <<>> /\ s[1] \in {"+", "-"}
        neg    == s # <<>> /\ s[1] = "-"
        body   == IF signed THEN Tail(s) ELSE s
        low    == Lower(body)
        mag    == IF low = <<"i", "n", "f">>
                     \/ low = <<"i", "n", "f", "i", "n", "i", "t", "y">>
                  THEN [ok |-> TRUE, v |-> Inf(0)]
                  ELSE IF low = <<"n", "a", "n">> THEN [ok |-> TRUE, v |-> NaN]
                  ELSE ParseDecimal(body)
    IN  IF mag.ok /\ neg THEN [ok |-> TRUE, v |-> FNeg[mag.v]] ELSE mag

(***************************************************************************)
(* mandelbrot (main.rs 15-25)                                              *)
(***************************************************************************)
Point == Seq(F64)

\* the threshold of the bailout test, 4.0 (line 19)
Bailout == F64Four

\* line 18: the next z
MandelStep[z \in Point, c \in Point] ==
    <<FAdd[FSub[FMul[z[1], z[1]], FMul[z[2], z[2]]], c[1]],
      FAdd[FMul[FMul[F64Two, z[1]], z[2]], c[2]]>>

\* line 19: x * x + y * y
Norm2[p \in Point] == FAdd[FMul[p[1], p[1]], FMul[p[2], p[2]]]

\* the count of the iterations run, one more than the index
BailoutNext(i) == FOfInt[i + 1]

\* line 20: the value returned when the bailout test triggers at iteration i
BailoutValue(i) == FOfInt[i]

\* the loop from iteration i on: the value returned, whether the bailout
\* test triggered, and if so at which iteration and with which x*x + y*y
MandelFrom[z \in Point, c \in Point, i \in Nat, max_iter \in Limbs] ==
    IF BCmp[BOfInt[i], max_iter] >= 0
    THEN [ret |-> FOfNat[max_iter], bailed |-> FALSE, i |-> i, norm |-> NaN]
    ELSE LET xy == MandelStep[z, c]
         IN  IF FGt[Norm2[xy], Bailout]
             THEN [ret |-> BailoutValue(i), bailed |-> TRUE, i |-> i,
                   norm |-> Norm2[xy]]
             ELSE MandelFrom[xy, c, i + 1, max_iter]

MandelRun(c, max_iter) == MandelFrom[<<FZero(0), FZero(0)>>, c, 0, max_iter]

mandelbrot(c, max_iter) == MandelRun(c, max_iter).ret

(***************************************************************************)
(* color_gradient (main.rs 101-106).  The bytes colorgrad's sinebow        *)
(* gradient gives for a phase t are left uninterpreted: a byte of the      *)
(* buffer records where it comes from.  `inv` is set by image's invert     *)
(* (255 - b), which is its own inverse.                                    *)
(***************************************************************************)
ZeroByte == [src |-> "zero", t |-> NaN, ch |-> 0, inv |-> FALSE]
Sinebow(t, ch) == [src |-> "sinebow", t |-> t, ch |-> ch, inv |-> FALSE]
InvertByte(b) == [b EXCEPT !.inv = ~b.inv]

\* lines 104-105: g.at(t).to_rgba8(), without the alpha byte
SinebowRgb[t \in F64] == <<Sinebow(t, 0), Sinebow(t, 1), Sinebow(t, 2)>>

color_gradient(iters_to_escape) ==
    SinebowRgb[FRem1[FMul[F64Four, iters_to_escape]]]

(***************************************************************************)
(* render_mandelbrot (main.rs 67-96)                                       *)
(***************************************************************************)
\* rows and columns exchanged
TaskCoordsSwapped(i, width) == [x |-> i \div width, y |-> i % width]

\* lines 80-81: the pixel of chunk i
TaskCoords(i, width) == [x |-> i % width, y |-> i \div width]

\* lines 74-75, 83-86: the point of pixel (x, y)
PixelPoint(xy, width, height, x_range, y_range) ==
    LET scalex == FDiv[FSub[x_range[2], x_range[1]], FOfInt[width]]
        scaley == FDiv[FSub[y_range[2], y_range[1]], FOfInt[height]]
    IN  <<FAdd[FMul[FOfInt[xy.x], scalex], x_range[1]],
          FAdd[FMul[FOfInt[xy.y], scaley], y_range[1]]>>

\* lines 80-89: the closure's (r, g, b) for chunk i
PixelColor(i, width, height, max_iter, x_range, y_range) ==
    LET c          == PixelPoint(TaskCoords(i, width), width, height, x_range, y_range)
        iter_ratio == FDiv[mandelbrot(c, max_iter), FOfNat[max_iter]]
    IN  color_gradient(iter_ratio)

\* chunks two bytes apart: each shares a byte with the next
ChunkByteOverlap(i, k) == 2 * i + k + 1

\* line 79: the place in data (counted from 1) of byte k of chunk i of
\* par_chunks_mut(3).enumerate()
ChunkByte(i, k) == 3 * i + k + 1

\* the buffer the call returns once every chunk's closure has run
render_mandelbrot(width, height, max_iter, x_range, y_range) ==
    LET chunks[i \in 0..(width * height)] ==
            IF i = width * height THEN <<>>
            ELSE PixelColor(i, width, height, max_iter, x_range, y_range)
                 \o chunks[i + 1]
    IN  chunks[0]

\* image::imageops::invert (line 176)
invert(img) == [b \in 1..Len(img) |-> InvertByte(img[b])]

(***************************************************************************)
(* main (main.rs 108-207)                                                  *)
(***************************************************************************)
\* line 147 sets the image to 1200 x 1200; the model renders a small image
ImgWidth == 2
ImgHeight == 2

\* the longest frame range of a modelled run
MaxFrames == 3

\* lines 152-153: the f64 nearest to each literal,
\* -0x1.bfffe55745243p+0 and -0x1.dda2386e887aep-50
x_center ==
    [k |-> "fin", s |-> 1, e |-> -52,
     m |-> HexNat[<<1, 11, 15, 15, 15, 14, 5, 5, 7, 4, 5, 2, 4, 3>>]]
y_center ==
    [k |-> "fin", s |-> 1, e |-> -102,
     m |-> HexNat[<<1, 13, 13, 10, 2, 3, 8, 6, 14, 8, 8, 7, 10, 14>>]]

\* lines 155-156
x_range_initial == <<FAdd[FNeg[F64Two], x_center], FAdd[F64Two, x_center]>>
y_range_initial == <<FAdd[FNeg[F64Two], y_center], FAdd[F64Two, y_center]>>

\* lines 161-162: the extent of the viewport of a frame
RangeWidth(initial, zf, fr) ==
    FDiv[FSub[initial[2], initial[1]], powi[zf, AsI32[fr]]]

\* lines 164-171
RangeAround(center, w) ==
    <<FSub[center, FDiv[w, F64Two]], FAdd[center, FDiv[w, F64Two]]>>

\* line 178: format!("rust_data/mandelbrot_set_{:04}.png", frame): the decimal
\* digits of frame, padded with zeros to four
DecimalDigits[n \in Limbs] ==
    IF n = <<>> THEN <<>>
    ELSE DecimalDigits[BDivSmall[n, 10]] \o <<Digits[BModSmall[n, 10] + 1]>>

Pad4(d) == [i \in 1..(IF Len(d) < 4 THEN 4 - Len(d) ELSE 0) |-> "0"] \o d

OutputFilename(fr) ==
    <<"rust_data/mandelbrot_set_">> \o Pad4(DecimalDigits[fr]) \o <<".png">>

\* the command lines modelled (without the program's name)
MaxIterArgs == {<<"0">>, <<"1">>, <<"3">>, <<"x">>, <<"-", "1">>}
ZoomStartArgs == {<<"0">>, <<"5", "4">>, <<"4", "2", "9", "4", "9", "6", "7", "2", "9", "4">>, <<>>, <<"1", ".", "5">>}
ZoomEndArgs == {<<"2">>, <<"5", "6">>, <<"4", "2", "9", "4", "9", "6", "7", "2", "9", "5">>, <<"4", "2", "9", "4", "9", "6", "7", "2", "9", "6">>}
ZoomFactorArgs == {<<"2">>, <<"1", ".", "5">>, <<"0", ".", "5">>, <<"1">>, <<"i", "n", "f">>, <<"N", "a", "N">>, <<"-", "2">>, <<"a", "b", "c">>}

ArgVectors ==
    {<<a, b, c, d>> : a \in MaxIterArgs, b \in ZoomStartArgs,
                      c \in ZoomEndArgs, d \in ZoomFactorArgs}
    \cup {<<>>, <<<<"3">>, <<"2">>, <<"2">>>>,
          <<<<"3">>, <<"0">>, <<"2">>, <<"2">>, <<"2">>>>}

\* what lines 109-145 make of a command line
ParsedArgs(a) ==
    IF Len(a) # 4 THEN [ok |-> FALSE, msg |-> "Usage: mandelbrot <max_iter> <zoom_start> <zoom_end> <zoom_factor>"]
    ELSE IF ~parse_u32(a[1]).ok THEN [ok |-> FALSE, msg |-> "Error: max_iter should be an integer"]
    ELSE IF ~parse_u32(a[2]).ok THEN [ok |-> FALSE, msg |-> "Error: zoom_start should be an integer"]
    ELSE IF ~parse_u32(a[3]).ok THEN [ok |-> FALSE, msg |-> "Error: zoom_end should be an integer"]
    ELSE IF ~parse_f64(a[4]).ok THEN [ok |-> FALSE, msg |-> "Error: zoom_factor should be a float"]
    ELSE [ok |-> TRUE, msg |-> "",
          max_iter |-> parse_u32(a[1]).v, zoom_start |-> parse_u32(a[2]).v,
          zoom_end |-> parse_u32(a[3]).v, zoom_factor |-> parse_f64(a[4]).v]

\* the number of frames of zoom_start..zoom_end is at most n
RangeWithin(zs, ze, n) == BCmp[ze, BAdd[zs, BOfInt[n]]] <= 0

(***************************************************************************)
(* State.  main: the command line, the position in main (pc), its locals,  *)
(* the files saved, the two output streams, the exit status, and the       *)
(* frames whose render began and the ffmpeg processes spawned.             *)
(* mandelbrot: one call, its arguments and what it returned.               *)
(* render_mandelbrot: one call, its arguments, the buffer, the chunks not  *)
(* yet taken, what each worker of the pool is doing, and the stores made   *)
(* into each byte.                                                         *)
(***************************************************************************)
VARIABLES args, pc, max_iter, zoom_start, zoom_end, zoom_factor, frame,
          x_range_width, y_range_width, x_range, y_range, img, saved,
          rendered, stderr, stdout, exit_code, encoder,
          m_pc, m_c, m_max_iter, m_out,
          r_pc, r_in, data, pending, workers, stores

mainVars == <<args, pc, max_iter, zoom_start, zoom_end, zoom_factor, frame,
              x_range_width, y_range_width, x_range, y_range, img, saved,
              rendered, stderr, stdout, exit_code, encoder>>
mandelVars == <<m_pc, m_c, m_max_iter, m_out>>
renderVars == <<r_pc, r_in, data, pending, workers, stores>>
vars == <<mainVars, mandelVars, renderVars>>

NoRange == <<NaN, NaN>>
NoExit == -1

MainIdle ==
    /\ args = <<>> /\ pc = "off"
    /\ max_iter = <<>> /\ zoom_start = <<>> /\ zoom_end = <<>>
    /\ zoom_factor = NaN /\ frame = <<>>
    /\ x_range_width = NaN /\ y_range_width = NaN
    /\ x_range = NoRange /\ y_range = NoRange
    /\ img = <<>> /\ saved = <<>> /\ rendered = <<>>
    /\ stderr = <<>> /\ stdout = <<>> /\ exit_code = NoExit /\ encoder = 0

NoMandelOut == [ret |-> NaN, bailed |-> FALSE, i |-> 0, norm |-> NaN]

MandelIdle ==
    /\ m_pc = "off" /\ m_c = NoRange /\ m_max_iter = <<>> /\ m_out = NoMandelOut

NoRenderIn ==
    [width |-> 0, height |-> 0, max_iter |-> <<>>, x_range |-> NoRange,
     y_range |-> NoRange]

RenderIdle ==
    /\ r_pc = "off" /\ r_in = NoRenderIn /\ data = <<>> /\ pending = {}
    /\ workers = <<>> /\ stores = <<>>

(***************************************************************************)
(* main                                                                    *)
(***************************************************************************)
MainInit ==
    /\ args \in {a \in ArgVectors :
                    ParsedArgs(a).ok =>
                        RangeWithin(ParsedArgs(a).zoom_start,
                                    ParsedArgs(a).zoom_end, MaxFrames)}
    /\ pc = "start"
    /\ max_iter = <<>> /\ zoom_start = <<>> /\ zoom_end = <<>>
    /\ zoom_factor = NaN /\ frame = <<>>
    /\ x_range_width = NaN /\ y_range_width = NaN
    /\ x_range = NoRange /\ y_range = NoRange
    /\ img = <<>> /\ saved = <<>> /\ rendered = <<>>
    /\ stderr = <<>> /\ stdout = <<>> /\ exit_code = NoExit /\ encoder = 0

\* std::process::exit(1) after eprintln!(msg)
ExitWith(msg) ==
    /\ stderr' = Append(stderr, msg)
    /\ exit_code' = 1
    /\ pc' = "exited"

\* the range's next index skipping one, and repeating one
ReportSkip ==
    /\ pc = "report"
    /\ stdout' = Append(stdout, <<"Frame {} saved in {:.2?} seconds.", frame>>)
    /\ frame' = BAdd[frame, <<2>>]
    /\ pc' = "loop"
    /\ UNCHANGED <<args, max_iter, zoom_start, zoom_end, zoom_factor,
                   x_range_width, y_range_width, x_range, y_range, img, saved,
                   rendered, stderr, exit_code, encoder>>
    /\ UNCHANGED <<mandelVars, renderVars>>

ReportStay ==
    /\ pc = "report"
    /\ stdout' = Append(stdout, <<"Frame {} saved in {:.2?} seconds.", frame>>)
    /\ pc' = "loop"
    /\ UNCHANGED <<args, max_iter, zoom_start, zoom_end, zoom_factor, frame,
                   x_range_width, y_range_width, x_range, y_range, img, saved,
                   rendered, stderr, exit_code, encoder>>
    /\ UNCHANGED <<mandelVars, renderVars>>

\* a failed save reported, the loop going on
SaveFailContinue ==
    /\ pc = "save"
    /\ stderr' = Append(stderr, "Failed to save image: {}")
    /\ pc' = "report"
    /\ UNCHANGED <<args, max_iter, zoom_start, zoom_end, zoom_factor, frame,
                   x_range_width, y_range_width, x_range, y_range, img, saved,
                   rendered, stdout, exit_code, encoder>>
    /\ UNCHANGED <<mandelVars, renderVars>>

\* lines 109-145, an argument missing or not parsed
ArgsRejected ==
    /\ pc = "start"
    /\ ~ParsedArgs(args).ok
    /\ ExitWith(ParsedArgs(args).msg)
    /\ UNCHANGED <<args, max_iter, zoom_start, zoom_end, zoom_factor, frame,
                   x_range_width, y_range_width, x_range, y_range, img, saved,
                   rendered, stdout, encoder>>
    /\ UNCHANGED <<mandelVars, renderVars>>

\* lines 109-158, the arguments parsed: the loop starts at zoom_start
ArgsAccepted ==
    /\ pc = "start"
    /\ ParsedArgs(args).ok
    /\ max_iter' = ParsedArgs(args).max_iter
    /\ zoom_start' = ParsedArgs(args).zoom_start
    /\ zoom_end' = ParsedArgs(args).zoom_end
    /\ zoom_factor' = ParsedArgs(args).zoom_factor
    /\ frame' = ParsedArgs(args).zoom_start
    /\ pc' = "loop"
    /\ UNCHANGED <<args, x_range_width, y_range_width, x_range, y_range, img,
                   saved, rendered, stderr, stdout, exit_code, encoder>>
    /\ UNCHANGED <<mandelVars, renderVars>>

\* lines 158-173: the range has a next frame; its viewport
FrameBegin ==
    /\ pc = "loop"
    /\ BCmp[frame, zoom_end] < 0
    /\ x_range_width' = RangeWidth(x_range_initial, zoom_factor, frame)
    /\ y_range_width' = RangeWidth(y_range_initial, zoom_factor, frame)
    /\ x_range' = RangeAround(x_center, RangeWidth(x_range_initial, zoom_factor, frame))
    /\ y_range' = RangeAround(y_center, RangeWidth(y_range_initial, zoom_factor, frame))
    /\ pc' = "render"
    /\ UNCHANGED <<args, max_iter, zoom_start, zoom_end, zoom_factor, frame,
                   img, saved, rendered, stderr, stdout, exit_code, encoder>>
    /\ UNCHANGED <<mandelVars, renderVars>>

\* line 174
Render ==
    /\ pc = "render"
    /\ rendered' = Append(rendered, frame)
    /\ img' = render_mandelbrot(ImgWidth, ImgHeight, max_iter, x_range, y_range)
    /\ pc' = "invert"
    /\ UNCHANGED <<args, max_iter, zoom_start, zoom_end, zoom_factor, frame,
                   x_range_width, y_range_width, x_range, y_range, saved,
                   stderr, stdout, exit_code, encoder>>
    /\ UNCHANGED <<mandelVars, renderVars>>

\* line 176
Invert ==
    /\ pc = "invert"
    /\ img' = invert(img)
    /\ pc' = "save"
    /\ UNCHANGED <<args, max_iter, zoom_start, zoom_end, zoom_factor, frame,
                   x_range_width, y_range_width, x_range, y_range, saved,
                   rendered, stderr, stdout, exit_code, encoder>>
    /\ UNCHANGED <<mandelVars, renderVars>>

\* lines 178-181, img.save returns Ok: the file is written
SaveOk ==
    /\ pc = "save"
    /\ saved' = Append(saved, [frame |-> frame, name |-> OutputFilename(frame),
                               img |-> img])
    /\ pc' = "report"
    /\ UNCHANGED <<args, max_iter, zoom_start, zoom_end, zoom_factor, frame,
                   x_range_width, y_range_width, x_range, y_range, img,
                   rendered, stderr, stdout, exit_code, encoder>>
    /\ UNCHANGED <<mandelVars, renderVars>>

\* lines 181-184, img.save returns Err
SaveFail ==
    /\ pc = "save"
    /\ ExitWith("Failed to save image: {}")
    /\ UNCHANGED <<args, max_iter, zoom_start, zoom_end, zoom_factor, frame,
                   x_range_width, y_range_width, x_range, y_range, img, saved,
                   rendered, stdout, encoder>>
    /\ UNCHANGED <<mandelVars, renderVars>>

\* lines 186-192, and the range's next index (line 158)
Report ==
    /\ pc = "report"
    /\ stdout' = Append(stdout, <<"Frame {} saved in {:.2?} seconds.", frame>>)
    /\ frame' = BAdd[frame, <<1>>]
    /\ pc' = "loop"
    /\ UNCHANGED <<args, max_iter, zoom_start, zoom_end, zoom_factor,
                   x_range_width, y_range_width, x_range, y_range, img, saved,
                   rendered, stderr, exit_code, encoder>>
    /\ UNCHANGED <<mandelVars, renderVars>>

\* line 158, the range is exhausted, and lines 193-206: ffmpeg is spawned and
\* its output printed; main returns
EncodeOk ==
    /\ pc = "loop"
    /\ BCmp[frame, zoom_end] >= 0
    /\ encoder' = encoder + 1
    /\ stdout' = Append(stdout, <<"Output: {}">>)
    /\ exit_code' = 0
    /\ pc' = "exited"
    /\ UNCHANGED <<args, max_iter, zoom_start, zoom_end, zoom_factor, frame,
                   x_range_width, y_range_width, x_range, y_range, img, saved,
                   rendered, stderr>>
    /\ UNCHANGED <<mandelVars, renderVars>>

\* lines 193-204, ffmpeg cannot be spawned: expect panics (exit status 101)
EncodeFail ==
    /\ pc = "loop"
    /\ BCmp[frame, zoom_end] >= 0
    /\ encoder' = encoder + 1
    /\ stderr' = Append(stderr, "Failed to execute command")
    /\ exit_code' = 101
    /\ pc' = "exited"
    /\ UNCHANGED <<args, max_iter, zoom_start, zoom_end, zoom_factor, frame,
                   x_range_width, y_range_width, x_range, y_range, img, saved,
                   rendered, stdout>>
    /\ UNCHANGED <<mandelVars, renderVars>>

Init == MainInit /\ MandelIdle /\ RenderIdle

Next ==
    \/ ArgsRejected
    \/ ArgsAccepted
    \/ FrameBegin
    \/ Render
    \/ Invert
    \/ SaveOk
    \/ SaveFail
    \/ Report
    \/ EncodeOk
    \/ EncodeFail

Spec == Init /\ [][Next]_vars

\* main is one thread: a step that can be taken is taken
FairSpec == Spec /\ WF_vars(Next)

(***************************************************************************)
(* mandelbrot, called once on a point of a grid                            *)
(***************************************************************************)
\* the coordinates are k/2 for -GridMax <= k <= GridMax, the infinities, NaN
\* and the least positive f64; the iteration caps are 0..MaxIter
GridMax == 6
MaxIter == 3

F64Tiny == [k |-> "fin", s |-> 0, m |-> <<1>>, e |-> F64Format.emin]

GridCoords ==
    {FDiv[FOfInt[k], F64Two] : k \in (-GridMax)..GridMax}
    \cup {Inf(0), Inf(1), NaN, F64Tiny}

MandelInit ==
    /\ m_pc = "call"
    /\ m_c \in GridCoords \X GridCoords
    /\ m_max_iter \in {BOfInt[n] : n \in 0..MaxIter}
    /\ m_out = NoMandelOut

\* lines 15-25: the call runs to its return
MandelCall ==
    /\ m_pc = "call"
    /\ m_out' = MandelRun(m_c, m_max_iter)
    /\ m_pc' = "done"
    /\ UNCHANGED <<m_c, m_max_iter>>
    /\ UNCHANGED <<mainVars, renderVars>>

InitMandel == MainIdle /\ MandelInit /\ RenderIdle

NextMandel == MandelCall

SpecMandel == InitMandel /\ [][NextMandel]_vars

(***************************************************************************)
(* render_mandelbrot, called once: the chunks of data are handed to the    *)
(* workers of the pool in any order, a worker running one closure at a     *)
(* time and a closure storing its three bytes one by one.                  *)
(***************************************************************************)
\* images of at most MaxPixels pixels, a pool of NumWorkers threads, one
\* iteration cap
MaxPixels == 4
NumWorkers == 2
RenderMaxIter == 3

RenderSizes ==
    {wh \in (1..MaxPixels) \X (1..MaxPixels) : wh[1] * wh[2] <= MaxPixels}

RenderInputs ==
    {[width |-> wh[1], height |-> wh[2], max_iter |-> BOfInt[RenderMaxIter],
      x_range |-> <<FOfInt[-2], FOfInt[2]>>,
      y_range |-> <<FOfInt[-2], FOfInt[2]>>] : wh \in RenderSizes}

IdleWorker == [busy |-> FALSE]

RenderInit ==
    /\ r_pc = "start"
    /\ r_in \in RenderInputs
    /\ data = <<>> /\ pending = {}
    /\ workers = [w \in 1..NumWorkers |-> IdleWorker]
    /\ stores = <<>>

\* lines 74-79: the zeroed buffer, cut in chunks of three bytes
RenderStart ==
    /\ r_pc = "start"
    /\ data' = [b \in 1..(r_in.width * r_in.height * 3) |-> ZeroByte]
    /\ stores' = [b \in 1..(r_in.width * r_in.height * 3) |-> <<>>]
    /\ pending' = 0..(r_in.width * r_in.height - 1)
    /\ r_pc' = "par"
    /\ UNCHANGED <<r_in, workers>>
    /\ UNCHANGED <<mainVars, mandelVars>>

\* lines 80-89: worker w takes chunk i and computes its colour
TaskStart(w, i) ==
    /\ r_pc = "par"
    /\ ~workers[w].busy
    /\ i \in pending
    /\ pending' = pending \ {i}
    /\ workers' = [workers EXCEPT ![w] =
                      [busy |-> TRUE, i |-> i,
                       x |-> TaskCoords(i, r_in.width).x,
                       y |-> TaskCoords(i, r_in.width).y,
                       rgb |-> PixelColor(i, r_in.width, r_in.height, r_in.max_iter,
                                          r_in.x_range, r_in.y_range),
                       k |-> 0]]
    /\ UNCHANGED <<r_pc, r_in, data, stores>>
    /\ UNCHANGED <<mainVars, mandelVars>>

\* lines 90-92: the next store of worker w's closure; after the third the
\* closure returns
TaskWrite(w) ==
    /\ r_pc = "par"
    /\ workers[w].busy
    /\ data' = [data EXCEPT ![ChunkByte(workers[w].i, workers[w].k)] =
                                workers[w].rgb[workers[w].k + 1]]
    /\ stores' = [stores EXCEPT ![ChunkByte(workers[w].i, workers[w].k)] =
                                    Append(@, workers[w].i)]
    /\ workers' = [workers EXCEPT ![w] =
                      IF workers[w].k = 2 THEN IdleWorker
                      ELSE [workers[w] EXCEPT !.k = workers[w].k + 1]]
    /\ UNCHANGED <<r_pc, r_in, pending>>
    /\ UNCHANGED <<mainVars, mandelVars>>

\* lines 93-95: for_each returns when every closure has; the buffer is returned
Join ==
    /\ r_pc = "par"
    /\ pending = {}
    /\ \A w \in 1..NumWorkers : ~workers[w].busy
    /\ r_pc' = "done"
    /\ UNCHANGED <<r_in, data, pending, workers, stores>>
    /\ UNCHANGED <<mainVars, mandelVars>>

InitRender == MainIdle /\ MandelIdle /\ RenderInit

NextRender ==
    \/ RenderStart
    \/ \E w \in 1..NumWorkers : \E i \in 0..(MaxPixels - 1) : TaskStart(w, i)
    \/ \E w \in 1..NumWorkers : TaskWrite(w)
    \/ Join

SpecRender == InitRender /\ [][NextRender]_vars

(***************************************************************************)
(* The properties checked                                                  *)
(***************************************************************************)
SaveFailed == \E j \in 1..Len(stderr) : stderr[j] = "Failed to save image: {}"

\* the index of the j-th frame of the range
FrameAt(j) == BAdd[zoom_start, BOfInt[j - 1]]

\* the number of frames of zoom_start..zoom_end
RangeFrames ==
    IF BCmp[zoom_start, zoom_end] < 0 THEN BToInt[BSub[zoom_end, zoom_start]] ELSE 0

\* every byte of the buffer was stored by a closure and then inverted
FilledInverted(buf) ==
    /\ Len(buf) = 3 * ImgWidth * ImgHeight
    /\ \A b \in 1..Len(buf) : buf[b].src = "sinebow" /\ buf[b].inv

\* C1: frames are produced one after the other and saved in increasing
\* order: the render of a frame begins only when every frame rendered before
\* it has been saved, a saved buffer is completely filled and inverted, and
\* the indices rendered and saved are zoom_start, zoom_start + 1, ... with
\* none skipped, repeated or reordered.
C1_SequentialFrames ==
    /\ Len(saved) <= Len(rendered)
    /\ Len(rendered) <= Len(saved) + 1
    /\ (pc = "render" => Len(rendered) = Len(saved))
    /\ (pc \in {"invert", "save"} => Len(rendered) = Len(saved) + 1)
    /\ \A j \in 1..Len(rendered) : rendered[j] = FrameAt(j)
    /\ \A j \in 1..Len(saved) :
          /\ saved[j].frame = FrameAt(j)
          /\ saved[j].name = OutputFilename(FrameAt(j))
          /\ FilledInverted(saved[j].img)

C1_Witness ==
    /\ Len(saved) = 2
    /\ Len(rendered) = 2
    /\ FilledInverted(saved[2].img)
    /\ saved[2].frame = BAdd[saved[1].frame, <<1>>]

\* C2: once the save of a frame k has failed the run is over with exit
\* status 1 and one diagnostic: frame k is the last one rendered, it is not
\* saved, the encoder is not invoked, and nothing happens afterwards (no
\* later frame, no second attempt at the save).
C2_SaveFailureAborts ==
    /\ [](SaveFailed =>
            /\ pc = "exited"
            /\ exit_code = 1
            /\ stderr = <<"Failed to save image: {}">>
            /\ encoder = 0
            /\ Len(rendered) = Len(saved) + 1
            /\ rendered[Len(rendered)] = frame)
    /\ [][SaveFailed => UNCHANGED vars]_vars

C2_Witness ==
    /\ SaveFailed
    /\ Len(saved) >= 1
    /\ exit_code = 1

\* what C3 calls a malformed command line
ClaimMalformed(a) ==
    \/ Len(a) # 4
    \/ ~parse_u32(a[1]).ok
    \/ parse_u32(a[1]).v = <<>>
    \/ ~parse_u32(a[2]).ok
    \/ ~parse_u32(a[3]).ok
    \/ ~parse_f64(a[4]).ok
    \/ ~FGt[parse_f64(a[4]).v, F64One]

\* C3: a command line with an argument count other than four, a max_iter
\* that is not a positive integer, a zoom_start or zoom_end that is not an
\* integer, or a zoom_factor that is not a float greater than 1 makes the
\* process exit with status 1 after writing to the error stream, with no
\* frame rendered or saved and the encoder not invoked.
C3_MalformedRejected ==
    (pc # "start" /\ ClaimMalformed(args)) =>
        /\ pc = "exited"
        /\ exit_code = 1
        /\ stderr # <<>>
        /\ rendered = <<>>
        /\ saved = <<>>
        /\ encoder = 0

\* C4: the frame loop saves exactly the frames zoom_start <= i < zoom_end
\* (none when zoom_start >= zoom_end); the encoder is invoked at most once,
\* and only when every frame of the range has been saved; and a run whose
\* arguments are accepted and whose saves do not fail reaches the encoder
\* invocation.
C4_LoopThenEncoder ==
    /\ [](encoder <= 1)
    /\ [](Len(saved) <= RangeFrames)
    /\ [](encoder = 1 =>
            /\ pc = "exited"
            /\ Len(saved) = RangeFrames
            /\ \A j \in 1..Len(saved) : saved[j].frame = FrameAt(j))
    /\ (pc = "loop") ~> (SaveFailed \/ encoder = 1)

C4_Witness ==
    /\ encoder = 1
    /\ exit_code = 0
    /\ Len(saved) = 2
    /\ RangeFrames = 2

\* x*x + y*y of the point c, as line 19 computes it, is at least 4.  For the
\* points of the grid this is |c| >= 2.
NormAtLeast4(c) == FGt[Norm2[c], Bailout] \/ FEq[Norm2[c], Bailout]

\* C5 as stated: for every point c with |c| >= 2 and every max_iter >= 1,
\* mandelbrot returns a finite value less than 1.
C5_OutsideOrOnCircle ==
    (m_pc = "done" /\ NormAtLeast4(m_c) /\ m_max_iter # <<>>) =>
        IsFinite(m_out.ret) /\ FLt[m_out.ret, F64One]

\* C5, amended: for every point c whose x*x + y*y, computed in f64, is
\* greater than 4 (so |c| > 2) and every max_iter >= 1, mandelbrot bails out
\* at iteration 0 and returns 0, a finite value less than 1.
C5_StrictlyOutside ==
    (m_pc = "done" /\ FGt[Norm2[m_c], Bailout] /\ m_max_iter # <<>>) =>
        /\ m_out.bailed
        /\ m_out.i = 0
        /\ IsFinite(m_out.ret)
        /\ FLt[m_out.ret, F64One]

C5_Witness ==
    /\ m_pc = "done"
    /\ m_c = <<FOfInt[3], FZero(0)>>
    /\ m_max_iter = <<1>>
    /\ m_out.bailed
    /\ FEq[m_out.ret, FZero(0)]

F64Half == FDiv[F64One, F64Two]

\* C6: when the bailout test triggers at iteration i, mandelbrot returns
\* i - log2(log2(|z|^2))/2 -- a value below i - 1/2, since |z|^2 > 4, and
\* equal to i - 1 when |z|^2 = 16 -- and when no bailout occurs it returns
\* max_iter.  Stated for the points c of finite coordinates.
C6_SmoothedValue ==
    (m_pc = "done" /\ IsFinite(m_c[1]) /\ IsFinite(m_c[2])) =>
        IF m_out.bailed
        THEN /\ FLt[m_out.ret, FSub[FOfInt[m_out.i], F64Half]]
             /\ (FEq[m_out.norm, FOfInt[16]] =>
                    FEq[m_out.ret, FOfInt[m_out.i - 1]])
        ELSE FEq[m_out.ret, FOfNat[m_max_iter]]

\* C7: whatever the order in which the workers take the chunks and make
\* their stores, the buffer render_mandelbrot returns is the one its
\* arguments determine.
C7_Deterministic ==
    r_pc = "done" =>
        data = render_mandelbrot(r_in.width, r_in.height, r_in.max_iter,
                                 r_in.x_range, r_in.y_range)

C7_Witness ==
    /\ r_pc = "done"
    /\ r_in.width = 2 /\ r_in.height = 2
    /\ data[1] # data[4]
    /\ \A b \in 1..Len(data) : data[b].src = "sinebow"

\* C8: every viewport passed to render_mandelbrot has x_max > x_min and
\* y_max > y_min, for every frame of the range and every zoom_factor the
\* command line accepts -- stated here for the finite zoom factors greater
\* than 1 only, which are among them.
C8_ViewportOrdered ==
    (pc = "render" /\ IsFinite(zoom_factor) /\ FGt[zoom_factor, F64One]) =>
        /\ FGt[x_range[2], x_range[1]]
        /\ FGt[y_range[2], y_range[1]]

\* a^n for a u32 n, by the squarings and products of powi over the bits of n
PowU32State == [a : F64, n : Limbs, mul : F64]

PowU32[st \in PowU32State] ==
    LET mul  == IF BIsOdd[st.n] THEN FMul[st.mul, st.a] ELSE st.mul
        half == BDivSmall[st.n, 2]
    IN  IF half = <<>> THEN mul
        ELSE PowU32[[a |-> FMul[st.a, st.a], n |-> half, mul |-> mul]]

ExtentAt(initial, zf, fr) ==
    FDiv[FSub[initial[2], initial[1]], PowU32[[a |-> zf, n |-> fr, mul |-> F64One]]]

\* C9: for every frame index i of the range, any u32, the viewport rendered
\* for frame i is centred on the zoom centre and its width and height are
\* the initial extent divided by zoom_factor^i.
C9_ViewportOfIndex ==
    pc = "render" =>
        /\ x_range_width = ExtentAt(x_range_initial, zoom_factor, frame)
        /\ y_range_width = ExtentAt(y_range_initial, zoom_factor, frame)
        /\ x_range = RangeAround(x_center, x_range_width)
        /\ y_range = RangeAround(y_center, y_range_width)

\* C10: the task of chunk i has x = i mod width and y = i div width and
\* stores only into bytes 3i, 3i+1, 3i+2 (counted from 0): a byte is stored
\* into by its own chunk's task only and at most once, and when the parallel
\* pass is over every byte has been stored into exactly once.
C10_DisjointChunks ==
    /\ \A w \in 1..Len(workers) :
          workers[w].busy =>
              /\ workers[w].i \in 0..(r_in.width * r_in.height - 1)
              /\ workers[w].x = workers[w].i % r_in.width
              /\ workers[w].y = workers[w].i \div r_in.width
    /\ \A b \in 1..Len(stores) :
          /\ Len(stores[b]) <= 1
          /\ \A j \in 1..Len(stores[b]) : stores[b][j] = (b - 1) \div 3
    /\ (r_pc = "done" =>
          /\ Len(stores) = 3 * r_in.width * r_in.height
          /\ \A b \in 1..Len(stores) : Len(stores[b]) = 1)

C10_Witness ==
    /\ r_pc = "done"
    /\ r_in.width = 2 /\ r_in.height = 2
    /\ \A b \in 1..12 : stores[b] = <<(b - 1) \div 3>>

=============================================================================
